---- MODULE Spec2Model ----
(***************************************************************************)
(* Model of the Bedrock chat application: src/app.py (the chat turn) and   *)
(* src/bedrock_utils.py (_normalize_retrieval_item, query_knowledge_base,  *)
(* generate_response, valid_prompt).                                       *)
(*                                                                         *)
(* Python values are tagged records: None, strings (sequences of one-      *)
(* character strings), integers, lists and dicts (sequences of <<key,      *)
(* value>> pairs in insertion order).  A call's outcome is either a        *)
(* returned value or a raised exception.                                   *)
(***************************************************************************)
EXTENDS Integers, Sequences, FiniteSets, TLC

VARIABLES
    messages,   \* st.session_state.messages: the conversation history
    pc,         \* position of the script / of the function under call
    prompt,     \* the chat input of the turn in progress
    model_id,   \* the sidebar's model selection
    temperature, \* the sidebar's temperature, in tenths
    top_p,      \* the sidebar's top_p, in thousandths
    gate,       \* outcome of valid_prompt(prompt, model_id) in this turn
    retrieval,  \* outcome of bedrock_kb.retrieve(...) in this turn
    kb_results, \* outcome of query_knowledge_base(prompt, kb_id)
    context,    \* the assembled context string
    response,   \* the turn's answer
    calls,      \* the external calls made so far in this turn, in order
    turns,      \* number of completed turns
    arg,        \* argument of the library function under call
    ret         \* outcome of the library function under call

vars == <<messages, pc, prompt, model_id, temperature, top_p, gate, retrieval,
          kb_results, context, response, calls, turns, arg, ret>>

----------------------------------------------------------------------------
(* Python values *)

None == [t |-> "none"]
Str(s) == [t |-> "str", v |-> s]
Num(n) == [t |-> "num", v |-> n]
List(l) == [t |-> "list", v |-> l]
Dict(kv) == [t |-> "dict", v |-> kv]

IsNone(x) == x.t = "none"
IsStr(x) == x.t = "str"
IsList(x) == x.t = "list"
IsDict(x) == x.t = "dict"

\* bool(x)
Truthy(x) ==
    CASE x.t = "none" -> FALSE
      [] x.t = "num" -> x.v # 0
      [] OTHER -> Len(x.v) > 0

\* a or b, both already evaluated
Or(a, b) == IF Truthy(a) THEN a ELSE b

\* k in d
Has(d, k) == \E i \in 1..Len(d.v) : d.v[i][1] = k

\* d[k] for a key that is present
Item(d, k) == d.v[CHOOSE i \in 1..Len(d.v) : d.v[i][1] = k][2]

\* d.get(k)
Get(d, k) == IF Has(d, k) THEN Item(d, k) ELSE None

\* outcomes of a call
Return(x) == [kind |-> "return", val |-> x]
Raise(e) == [kind |-> "raise", exc |-> e]
Returned(o) == o.kind = "return"
Raised(o) == o.kind = "raise"

----------------------------------------------------------------------------
(* Python strings: sequences of one-character strings *)

LowerLetters == <<"a", "b", "c", "d", "e", "f", "g", "h", "i", "j", "k", "l", "m",
                  "n", "o", "p", "q", "r", "s", "t", "u", "v", "w", "x", "y", "z">>
UpperLetters == <<"A", "B", "C", "D", "E", "F", "G", "H", "I", "J", "K", "L", "M",
                  "N", "O", "P", "Q", "R", "S", "T", "U", "V", "W", "X", "Y", "Z">>

IndexIn(letters, c) == CHOOSE i \in 1..Len(letters) : letters[i] = c
IsIn(letters, c) == \E i \in 1..Len(letters) : letters[i] = c

\* s.upper(), s.lower()
Upper(s) == [i \in 1..Len(s) |->
               IF IsIn(LowerLetters, s[i]) THEN UpperLetters[IndexIn(LowerLetters, s[i])]
               ELSE s[i]]
Lower(s) == [i \in 1..Len(s) |->
               IF IsIn(UpperLetters, s[i]) THEN LowerLetters[IndexIn(UpperLetters, s[i])]
               ELSE s[i]]

\* p in s
Contains(s, p) == \E i \in 0..(Len(s) - Len(p)) : SubSeq(s, i + 1, i + Len(p)) = p

\* s[:n]
Prefix(s, n) == IF Len(s) <= n THEN s ELSE SubSeq(s, 1, n)

\* sep.join(pieces)
RECURSIVE Join(_, _)
Join(pieces, sep) ==
    IF Len(pieces) = 0 THEN <<>>
    ELSE IF Len(pieces) = 1 THEN pieces[1]
    ELSE pieces[1] \o sep \o Join(Tail(pieces), sep)

Digits == <<"0", "1", "2", "3", "4", "5", "6", "7", "8", "9">>

\* str(n) of an integer
RECURSIVE NatStr(_)
NatStr(n) == IF n < 10 THEN <<Digits[n + 1]>> ELSE NatStr(n \div 10) \o <<Digits[(n % 10) + 1]>>
IntStr(n) == IF n < 0 THEN <<"-">> \o NatStr(-n) ELSE NatStr(n)

\* the characters of a dict key
KeyChars(k) ==
    CASE k = "document" -> <<"d", "o", "c", "u", "m", "e", "n", "t">>
      [] k = "content" -> <<"c", "o", "n", "t", "e", "n", "t">>
      [] k = "contents" -> <<"c", "o", "n", "t", "e", "n", "t", "s">>
      [] k = "text" -> <<"t", "e", "x", "t">>
      [] k = "documentText" -> <<"d", "o", "c", "u", "m", "e", "n", "t", "T", "e", "x", "t">>
      [] k = "documentId" -> <<"d", "o", "c", "u", "m", "e", "n", "t", "I", "d">>
      [] k = "id" -> <<"i", "d">>
      [] k = "metadata" -> <<"m", "e", "t", "a", "d", "a", "t", "a">>
      [] k = "score" -> <<"s", "c", "o", "r", "e">>
      [] k = "similarity" -> <<"s", "i", "m", "i", "l", "a", "r", "i", "t", "y">>
      [] k = "relevanceScore" -> <<"r", "e", "l", "e", "v", "a", "n", "c", "e", "S", "c", "o", "r", "e">>
      [] k = "retrievalResults" -> <<"r", "e", "t", "r", "i", "e", "v", "a", "l", "R", "e", "s", "u", "l", "t", "s">>
      [] k = "results" -> <<"r", "e", "s", "u", "l", "t", "s">>
      [] k = "items" -> <<"i", "t", "e", "m", "s">>
      [] k = "hits" -> <<"h", "i", "t", "s">>
      [] k = "chunks" -> <<"c", "h", "u", "n", "k", "s">>
      [] k = "preview" -> <<"p", "r", "e", "v", "i", "e", "w">>
      [] k = "output" -> <<"o", "u", "t", "p", "u", "t">>
      [] k = "generatedText" -> <<"g", "e", "n", "e", "r", "a", "t", "e", "d", "T", "e", "x", "t">>
      [] k = "result" -> <<"r", "e", "s", "u", "l", "t">>
      [] k = "location" -> <<"l", "o", "c", "a", "t", "i", "o", "n">>
      [] k = "source" -> <<"s", "o", "u", "r", "c", "e">>
      [] k = "error" -> <<"e", "r", "r", "o", "r">>
      [] k = "completion" -> <<"c", "o", "m", "p", "l", "e", "t", "i", "o", "n">>
      [] k = "anthropic_version" -> <<"a", "n", "t", "h", "r", "o", "p", "i", "c", "_", "v", "e", "r", "s", "i", "o", "n">>
      [] k = "messages" -> <<"m", "e", "s", "s", "a", "g", "e", "s">>
      [] k = "max_tokens" -> <<"m", "a", "x", "_", "t", "o", "k", "e", "n", "s">>
      [] k = "temperature" -> <<"t", "e", "m", "p", "e", "r", "a", "t", "u", "r", "e">>
      [] k = "top_p" -> <<"t", "o", "p", "_", "p">>
      [] k = "input" -> <<"i", "n", "p", "u", "t">>
      [] k = "role" -> <<"r", "o", "l", "e">>
      [] k = "type" -> <<"t", "y", "p", "e">>
      [] k = "category" -> <<"c", "a", "t", "e", "g", "o", "r", "y">>
      [] k = "raw" -> <<"r", "a", "w">>

\* json's escaping of a string body (ASCII text: quote, backslash, newline)
RECURSIVE JsonEscape(_)
JsonEscape(s) ==
    IF Len(s) = 0 THEN <<>>
    ELSE (CASE s[1] = "\"" -> <<"\\", "\"">>
            [] s[1] = "\\" -> <<"\\", "\\">>
            [] s[1] = "\n" -> <<"\\", "n">>
            [] OTHER -> <<s[1]>>) \o JsonEscape(Tail(s))

\* json.dumps(x)
RECURSIVE Dumps(_)
DumpsItems(l) == Join([i \in 1..Len(l) |-> Dumps(l[i])], <<",", " ">>)
DumpsPairs(kv) ==
    Join([i \in 1..Len(kv) |->
            <<"\"">> \o KeyChars(kv[i][1]) \o <<"\"", ":", " ">> \o Dumps(kv[i][2])],
         <<",", " ">>)
Dumps(x) ==
    CASE x.t = "none" -> <<"n", "u", "l", "l">>
      [] x.t = "str" -> <<"\"">> \o JsonEscape(x.v) \o <<"\"">>
      [] x.t = "num" -> IntStr(x.v)
      [] x.t = "list" -> <<"[">> \o DumpsItems(x.v) \o <<"]">>
      [] x.t = "dict" -> <<"{">> \o DumpsPairs(x.v) \o <<"}">>

\* repr(x), for text without quotes or backslashes
RECURSIVE Repr(_)
ReprItems(l) == Join([i \in 1..Len(l) |-> Repr(l[i])], <<",", " ">>)
ReprPairs(kv) ==
    Join([i \in 1..Len(kv) |->
            <<"'">> \o KeyChars(kv[i][1]) \o <<"'", ":", " ">> \o Repr(kv[i][2])],
         <<",", " ">>)
Repr(x) ==
    CASE x.t = "none" -> <<"N", "o", "n", "e">>
      [] x.t = "str" -> <<"'">> \o x.v \o <<"'">>
      [] x.t = "num" -> IntStr(x.v)
      [] x.t = "list" -> <<"[">> \o ReprItems(x.v) \o <<"]">>
      [] x.t = "dict" -> <<"{">> \o ReprPairs(x.v) \o <<"}">>

\* str(x)
PyStr(x) == IF x.t = "str" THEN x.v ELSE Repr(x)

----------------------------------------------------------------------------
(* bedrock_utils._normalize_retrieval_item *)

EmptyStr == Str(<<>>)
EmptyDict == Dict(<<>>)

\* {'id': ..., 'text': ..., 'metadata': ..., 'score': ...}
Passage(id, text, metadata, score) ==
    Dict(<< <<"id", id>>, <<"text", text>>, <<"metadata", metadata>>, <<"score", score>> >>)

\* x.get(k) on a value that may not be a dict: Raise when x has no get
GetOn(x, k) == IF IsDict(x) THEN Return(Get(x, k)) ELSE Raise("AttributeError")

\* first.get('text') or first.get('documentText') or ''
NestedText(c) == Or(Or(Get(c, "text"), Get(c, "documentText")), EmptyStr)

\* lines 32-39: the text found under content / contents
ContentText(item) ==
    LET content == Or(Get(item, "content"), Get(item, "contents"))
    IN  IF IsDict(content) THEN NestedText(content)
        ELSE IF IsList(content) /\ Truthy(content) /\ IsDict(content.v[1])
             THEN NestedText(content.v[1])
        ELSE EmptyStr

\* lines 42-43: item.get('text') or item.get('documentText') or doc.get('text') or ''
FallbackText(item, doc) ==
    IF Truthy(Get(item, "text")) THEN Return(Get(item, "text"))
    ELSE IF Truthy(Get(item, "documentText")) THEN Return(Get(item, "documentText"))
    ELSE IF Raised(GetOn(doc, "text")) THEN GetOn(doc, "text")
    ELSE Return(Or(GetOn(doc, "text").val, EmptyStr))

\* line 45: item.get('documentId') or item.get('id') or doc.get('id')
DocId(item, doc) ==
    IF Truthy(Get(item, "documentId")) THEN Return(Get(item, "documentId"))
    ELSE IF Truthy(Get(item, "id")) THEN Return(Get(item, "id"))
    ELSE GetOn(doc, "id")

\* line 46: item.get('metadata') or doc.get('metadata') or {}
Metadata(item, doc) ==
    IF Truthy(Get(item, "metadata")) THEN Return(Get(item, "metadata"))
    ELSE IF Raised(GetOn(doc, "metadata")) THEN GetOn(doc, "metadata")
    ELSE Return(Or(GetOn(doc, "metadata").val, EmptyDict))

\* line 47: item.get('score') or item.get('similarity') or item.get('relevanceScore')
Score(item) == Or(Or(Get(item, "score"), Get(item, "similarity")), Get(item, "relevanceScore"))

_normalize_retrieval_item(item) ==
    IF ~IsDict(item)
    THEN Return(Passage(None, Str(PyStr(item)), EmptyDict, None))
    ELSE LET doc == Or(Get(item, "document"), EmptyDict)
             found == ContentText(item)
             text == IF Truthy(found) THEN Return(found) ELSE FallbackText(item, doc)
             doc_id == DocId(item, doc)
             metadata == Metadata(item, doc)
         IN  IF Raised(text) THEN text
             ELSE IF Raised(doc_id) THEN doc_id
             ELSE IF Raised(metadata) THEN metadata
             ELSE Return(Passage(doc_id.val, text.val, metadata.val, Score(item)))

----------------------------------------------------------------------------
(* bedrock_utils.query_knowledge_base *)

\* what `for r in x` yields: Raise when x is not iterable
Iterate(x) ==
    CASE x.t = "list" -> Return(x.v)
      [] x.t = "dict" -> Return([i \in 1..Len(x.v) |-> Str(KeyChars(x.v[i][1]))])
      [] x.t = "str" -> Return([i \in 1..Len(x.v) |-> Str(<<x.v[i]>>)])
      [] OTHER -> Raise("TypeError")

\* line 64: the first truthy of retrievalResults, results, items, hits, else []
TopLevelResults(resp) ==
    Or(Or(Or(Or(Get(resp, "retrievalResults"), Get(resp, "results")),
             Get(resp, "items")), Get(resp, "hits")), List(<<>>))

\* lines 67-72: one more layer of probing when the batch is a dict
NestedResults(results) ==
    IF ~IsDict(results) THEN results
    ELSE IF Has(results, "items") /\ IsList(Item(results, "items")) THEN Item(results, "items")
    ELSE IF Has(results, "results") /\ IsList(Item(results, "results")) THEN Item(results, "results")
    ELSE IF Has(results, "hits") /\ IsList(Item(results, "hits")) THEN Item(results, "hits")
    ELSE results

\* line 74: [_normalize_retrieval_item(r) for r in (results or [])]
NormalizeAll(results) ==
    LET it == Iterate(Or(results, List(<<>>)))
    IN  IF Raised(it) THEN it
        ELSE IF \E i \in 1..Len(it.val) : Raised(_normalize_retrieval_item(it.val[i]))
        THEN Raise("AttributeError")
        ELSE Return(List([i \in 1..Len(it.val) |-> _normalize_retrieval_item(it.val[i]).val]))

TopK == 3

\* the arguments of bedrock_kb.retrieve(...)
RetrieveCall(query, top_k) == [api |-> "retrieve", query |-> query, numberOfResults |-> top_k]

\* query_knowledge_base, except that the except clauses return None
query_knowledge_base_ReturnsNone(query, top_k, retrieved) ==
    LET normalized == NormalizeAll(NestedResults(TopLevelResults(retrieved.val)))
    IN  [sent |-> RetrieveCall(query, top_k),
         out |-> IF Raised(retrieved) THEN None
                 ELSE IF ~IsDict(retrieved.val) THEN None
                 ELSE IF Raised(normalized) THEN None
                 ELSE normalized.val]

\* lines 56-81.  `retrieved` is the outcome of bedrock_kb.retrieve(...).  Both
\* except clauses return [].  The result is the call sent and the value returned.
query_knowledge_base(query, top_k, retrieved) ==
    LET normalized == NormalizeAll(NestedResults(TopLevelResults(retrieved.val)))
    IN  [sent |-> RetrieveCall(query, top_k),
         out |-> IF Raised(retrieved) THEN List(<<>>)
                 ELSE IF ~IsDict(retrieved.val) THEN List(<<>>)
                 ELSE IF Raised(normalized) THEN List(<<>>)
                 ELSE normalized.val]

----------------------------------------------------------------------------
(* bedrock_utils.generate_response *)

DefaultMaxTokens == 512

Anthropic_ == <<"a", "n", "t", "h", "r", "o", "p", "i", "c", ".">>
Claude_ == <<"c", "l", "a", "u", "d", "e">>
AnthropicVersion == <<"b", "e", "d", "r", "o", "c", "k", "-", "2", "0", "2",
                    "3", "-", "0", "5", "-", "3", "1">>

\* the markers looked up in modelId as given, without lower()
IsClaudeFamily_CaseSensitive(modelId) ==
    LET id == Or(modelId, EmptyStr).v
    IN  Contains(id, Anthropic_) \/ Contains(id, Claude_)

\* lines 91-92: 'anthropic.' in lower_id or 'claude' in lower_id
IsClaudeFamily(modelId) ==
    LET lower_id == Lower(Or(modelId, EmptyStr).v)
    IN  Contains(lower_id, Anthropic_) \/ Contains(lower_id, Claude_)

\* lines 93-108.  temperature is in tenths and top_p in thousandths.
BuildPayload(promptText, modelId, temp, topP, maxTokens) ==
    IF IsClaudeFamily(modelId)
    THEN Dict(<< <<"anthropic_version", Str(AnthropicVersion)>>,
                 <<"messages",
                   List(<< Dict(<< <<"role", Str(<<"u", "s", "e", "r">>)>>,
                                   <<"content",
                                     List(<< Dict(<< <<"type", Str(<<"t", "e", "x", "t">>)>>,
                                                     <<"text", Str(promptText)>> >>) >>)>> >>) >>)>>,
                 <<"max_tokens", Num(maxTokens)>>,
                 <<"temperature", Num(temp)>>,
                 <<"top_p", Num(topP)>> >>)
    ELSE Dict(<< <<"input", Str(promptText)>>,
                 <<"max_tokens", Num(maxTokens)>>,
                 <<"temperature", Num(temp)>>,
                 <<"top_p", Num(topP)>> >>)

\* the first key of `keys` that is in d with a string value, as <<key>>, else <<>>
FirstStrKey(d, keys) ==
    IF \E i \in 1..Len(keys) : Has(d, keys[i]) /\ IsStr(Item(d, keys[i]))
    THEN <<keys[CHOOSE i \in 1..Len(keys) :
                  /\ Has(d, keys[i]) /\ IsStr(Item(d, keys[i]))
                  /\ \A j \in 1..(i - 1) : ~(Has(d, keys[j]) /\ IsStr(Item(d, keys[j])))]>>
    ELSE <<>>

\* lines 127-130: data['content'][0] is a dict holding 'text'
ClaudeStyle(data) ==
    /\ Has(data, "content")
    /\ IsList(Item(data, "content"))
    /\ Truthy(Item(data, "content"))
    /\ IsDict(Item(data, "content").v[1])
    /\ Has(Item(data, "content").v[1], "text")

\* lines 138-143: data['results'][0] is a dict with a string under one of the keys
ResultsStyle(data) ==
    /\ Has(data, "results")
    /\ IsList(Item(data, "results"))
    /\ Truthy(Item(data, "results"))
    /\ IsDict(Item(data, "results").v[1])
    /\ FirstStrKey(Item(data, "results").v[1], <<"output", "text", "generatedText">>) # <<>>

\* the direct string fields probed with text before output
ExtractText_TextFirst(data) ==
    IF IsDict(data) /\ ClaudeStyle(data)
    THEN Item(Item(data, "content").v[1], "text")
    ELSE IF IsDict(data) /\ FirstStrKey(data, <<"text", "output", "generatedText", "result">>) # <<>>
    THEN Item(data, FirstStrKey(data, <<"text", "output", "generatedText", "result">>)[1])
    ELSE IF IsDict(data) /\ ResultsStyle(data)
    THEN LET r0 == Item(data, "results").v[1]
         IN  Item(r0, FirstStrKey(r0, <<"output", "text", "generatedText">>)[1])
    ELSE Str(Dumps(data))

\* lines 126-146
ExtractText(data) ==
    IF IsDict(data) /\ ClaudeStyle(data)
    THEN Item(Item(data, "content").v[1], "text")
    ELSE IF IsDict(data) /\ FirstStrKey(data, <<"output", "generatedText", "text", "result">>) # <<>>
    THEN Item(data, FirstStrKey(data, <<"output", "generatedText", "text", "result">>)[1])
    ELSE IF IsDict(data) /\ ResultsStyle(data)
    THEN LET r0 == Item(data, "results").v[1]
         IN  Item(r0, FirstStrKey(r0, <<"output", "text", "generatedText">>)[1])
    ELSE Str(Dumps(data))

----------------------------------------------------------------------------
(* Bounds, and the values the external services and the user supply *)

MaxTurns == 2       \* chat turns per session
MaxPassages == 3    \* results in a batch handed to the context assembly
OverLen == 1        \* how far past PieceCap the longest text runs

Categories == <<"A", "B", "C", "D", "E">>

\* {<<>>} and the one-pair sequences <<k, v>>: a field absent or present
OptField(k, vals) == {<<>>} \cup {<< <<k, v>> >> : v \in vals}

TextBlock(s) == Dict(<< <<"type", Str(<<"t", "e", "x", "t">>)>>, <<"text", Str(s)>> >>)

\* parsed model responses
ContentVals ==
    { List(<<>>),
      List(<<TextBlock(<<"h", "i">>)>>),
      List(<<Dict(<< <<"text", Num(7)>> >>)>>),
      List(<<Dict(<< <<"type", Str(<<"t", "e", "x", "t">>)>> >>)>>),
      Str(<<"c">>) }
OutputVals == { Str(<<"o">>), Str(<<>>), Str(<<"\"", "\n", "\\">>), Num(1) }
ResultsVals ==
    { List(<<>>),
      List(<<Dict(<< <<"output", Num(1)>>, <<"text", Str(<<"r", "t">>)>>,
                     <<"generatedText", Str(<<"r", "g">>)>> >>)>>),
      List(<<Dict(<< <<"generatedText", Str(<<"r", "g">>)>> >>)>>),
      List(<<Str(<<"r">>)>>) }
ResponseDicts ==
    { Dict(c \o o \o g \o t \o r \o rs) :
        c \in OptField("content", ContentVals),
        o \in OptField("output", OutputVals),
        g \in OptField("generatedText", {Str(<<"g">>)}),
        t \in OptField("text", {Str(<<"t">>)}),
        r \in OptField("result", {Str(<<"r">>)}),
        rs \in OptField("results", ResultsVals) }
NonDictData == { None, Num(0), Str(<<"x">>), List(<<>>), List(<<Str(<<"x">>)>>) }

\* texts a model may answer the classification prompt with
CategoryText(ch) == <<"C", "a", "t", "e", "g", "o", "r", "y", " ", ch>>
GateTexts ==
    { CategoryText(Categories[i]) : i \in 1..Len(Categories) }
    \cup { <<Categories[i]>> : i \in 1..Len(Categories) }
    \cup { <<"b">>, <<"e">>, <<>>, <<"1", "2", "3">>, <<"n", "o", "?">>,
           <<"Z", "z", " ", "4", "2">> }
GateDicts ==
    { Dict(<< <<"content", List(<<TextBlock(s)>>)>> >>) : s \in GateTexts }
    \cup { Dict(<< <<"output", Str(s)>> >>) : s \in GateTexts }

JsonUniverse == ResponseDicts \cup NonDictData \cup GateDicts
\* each value with its JSON text
JsonTexts == { <<d, Dumps(d)>> : d \in JsonUniverse }

\* bytes that are no JSON text
Unparseable == { <<>>, <<"<", "h", "t", "m", "l", ">">> }

Body(stream, bytes) == [stream |-> stream, bytes |-> bytes]

\* outcomes of bedrock.invoke_model over the parsed responses in `data`
InvokeOutcomes(data) ==
    { Raise("ClientError"), Raise("ReadTimeoutError") }
    \cup { Return(Body(st, Dumps(d))) : st \in BOOLEAN, d \in data }
    \cup { Return(Body(st, b)) : st \in BOOLEAN, b \in Unparseable }

----------------------------------------------------------------------------
(* bedrock_utils.generate_response: the call and its response *)

\* what json.loads makes of the bytes of a response body: the value whose
\* JSON text they are, or a decode error
Loads(bytes) ==
    LET parsed == {p \in JsonTexts : p[2] = bytes}
    IN  IF parsed = {} THEN Raise("JSONDecodeError")
        ELSE Return((CHOOSE p \in parsed : TRUE)[1])

\* the arguments of bedrock.invoke_model(...); body is json.dumps(payload)
InvokeCall(modelId, payload) == [api |-> "invoke_model", modelId |-> modelId, payload |-> payload]

\* lines 87-152.  `invoked` is the outcome of bedrock.invoke_model(...): a
\* raised error, or a body [stream, bytes], read with body.read() when it is a
\* stream.  Both except clauses return None.  The result is the call sent and
\* the value returned.
generate_response(promptText, modelId, temp, topP, maxTokens, invoked) ==
    LET payload == BuildPayload(promptText, modelId, temp, topP, maxTokens)
        data == Loads(invoked.val.bytes)
    IN  [sent |-> InvokeCall(modelId, payload),
         out |-> IF Raised(invoked) THEN None
                 ELSE IF Raised(data) THEN None
                 ELSE ExtractText(data.val)]

----------------------------------------------------------------------------
(* bedrock_utils.valid_prompt *)

GateMaxTokens == 8

SystemMessage ==
    <<"C", "l", "a", "s", "s", "i", "f", "y", " ", "t", "h", "e", " ", "u",
    "s", "e", "r", " ", "r", "e", "q", "u", "e", "s", "t", " ", "i", "n", "t",
    "o", " ", "o", "n", "e", " ", "c", "a", "t", "e", "g", "o", "r", "y", ":",
    " ", "A", ",", "B", ",", "C", ",", "D", ",", "E", ".", " ", "R", "e", "s",
    "p", "o", "n", "d", " ", "w", "i", "t", "h", " ", "a", " ", "s", "i", "n",
    "g", "l", "e", " ", "l", "i", "n", "e", " ", "l", "i", "k", "e", ":", " ",
    "'", "C", "a", "t", "e", "g", "o", "r", "y", " ", "E", "'">>

\* line 166: system_message + "\n\n" + prompt
GatePrompt(promptText) == SystemMessage \o <<"\n", "\n">> \o promptText

\* str(e) of the AttributeError raised by raw.upper() on a non-string
NoUpperText(x) ==
    <<"'">> \o (CASE x.t = "num" -> <<"i", "n", "t">>
                  [] x.t = "list" -> <<"l", "i", "s", "t">>
                  [] x.t = "dict" -> <<"d", "i", "c", "t">>
                  [] OTHER -> <<"s", "t", "r">>)
    \o <<"'", " ", "o", "b", "j", "e", "c", "t", " ", "h", "a", "s", " ", "n",
       "o", " ", "a", "t", "t", "r", "i", "b", "u", "t", "e", " ", "'", "u",
       "p", "p", "e", "r", "'">>

Classification(category, raw) == Dict(<< <<"category", category>>, <<"raw", raw>> >>)

\* Classify, except that a failure hands the adapter's value back as raw
Classify_RawAsIs(resp_text) ==
    LET raw == Or(resp_text, EmptyStr)
    IN  IF ~IsStr(raw) THEN Classification(None, raw)
        ELSE IF \E i \in 1..Len(Categories) : Contains(Upper(raw.v), <<Categories[i]>>)
        THEN Classification(
                 Str(<<Categories[CHOOSE i \in 1..Len(Categories) :
                         /\ Contains(Upper(raw.v), <<Categories[i]>>)
                         /\ \A j \in 1..(i - 1) : ~Contains(Upper(raw.v), <<Categories[j]>>)]>>),
                 raw)
        ELSE Classification(None, raw)

\* lines 168-178, on resp_text, the adapter's return value
Classify(resp_text) ==
    LET raw == Or(resp_text, EmptyStr)
    IN  IF ~IsStr(raw) THEN Classification(None, Str(NoUpperText(raw)))
        ELSE IF \E i \in 1..Len(Categories) : Contains(Upper(raw.v), <<Categories[i]>>)
        THEN Classification(
                 Str(<<Categories[CHOOSE i \in 1..Len(Categories) :
                         /\ Contains(Upper(raw.v), <<Categories[i]>>)
                         /\ \A j \in 1..(i - 1) : ~Contains(Upper(raw.v), <<Categories[j]>>)]>>),
                 raw)
        ELSE Classification(None, raw)

\* lines 160-178: the call sent and the classification returned
valid_prompt(promptText, modelId, invoked) ==
    LET resp == generate_response(GatePrompt(promptText), modelId, 0, 1000, GateMaxTokens, invoked)
    IN  [sent |-> resp.sent, out |-> Classify(resp.out)]

----------------------------------------------------------------------------
(* app.py: the context assembly of a chat turn, lines 39-75 *)

PieceCap == 5000
ContextCap == 15000
TruncationMarker == <<"\n", ".", ".", ".", "[", "t", "r", "u", "n", "c", "a", "t", "e", "d", "]">>

\* a string under key k of dict d
StrAt(d, k) == Has(d, k) /\ IsStr(Item(d, k))

\* lines 48-55: the text under result['content'], None when there is none
ContentPiece(content) ==
    IF IsDict(content) /\ StrAt(content, "text") THEN Item(content, "text")
    ELSE IF IsList(content)
            /\ \E i \in 1..Len(content.v) : IsDict(content.v[i]) /\ StrAt(content.v[i], "text")
    THEN Item(content.v[CHOOSE i \in 1..Len(content.v) :
                          /\ IsDict(content.v[i]) /\ StrAt(content.v[i], "text")
                          /\ \A j \in 1..(i - 1) :
                                ~(IsDict(content.v[j]) /\ StrAt(content.v[j], "text"))],
              "text")
    ELSE None

\* lines 41-60: the text probed from a result, None when there is none
ProbedPiece(result) ==
    IF ~IsDict(result) THEN None
    ELSE IF StrAt(result, "text") THEN Item(result, "text")
    ELSE IF Has(result, "content") THEN ContentPiece(Item(result, "content"))
    ELSE IF StrAt(result, "chunks") THEN Item(result, "chunks")
    ELSE IF StrAt(result, "preview") THEN Item(result, "preview")
    ELSE None

\* lines 62-66: the display text; json.dumps when the probe found nothing or ''
DisplayText(result) ==
    IF Truthy(ProbedPiece(result)) THEN ProbedPiece(result).v ELSE Dumps(result)

\* the per-piece cap applied from PieceCap characters on, not above it
CapPiece_AtCap(text_piece) ==
    IF Len(text_piece) >= PieceCap THEN Prefix(text_piece, PieceCap) \o TruncationMarker
    ELSE text_piece

\* lines 69-70
CapPiece(text_piece) ==
    IF Len(text_piece) > PieceCap THEN Prefix(text_piece, PieceCap) \o TruncationMarker
    ELSE text_piece

\* lines 40-71: context_pieces
ContextPieces(results) ==
    LET shown == [i \in 1..Len(results) |-> DisplayText(results[i])]
        kept == SelectSeq(shown, LAMBDA t : Len(t) > 0)
    IN  [i \in 1..Len(kept) |-> CapPiece(kept[i])]

\* the overall cap marking the context without cutting it
CapContext_Uncut(joined) ==
    IF Len(joined) > ContextCap THEN joined \o TruncationMarker
    ELSE joined

\* lines 74-75
CapContext(joined) ==
    IF Len(joined) > ContextCap THEN Prefix(joined, ContextCap) \o TruncationMarker
    ELSE joined

\* lines 39-75
Assemble(results) == CapContext(Join(ContextPieces(results), <<"\n">>))

\* the Context section left out when the context is empty
FullPrompt_SkipEmptyContext(ctx, promptText) ==
    (IF Len(ctx) = 0 THEN <<>> ELSE <<"C", "o", "n", "t", "e", "x", "t", ":", " ">> \o ctx)
    \o <<"\n", "\n", "U", "s", "e", "r", ":", " ">> \o promptText \o <<"\n", "\n">>

\* line 78: f"Context: {context}\n\nUser: {prompt}\n\n"
FullPrompt(ctx, promptText) ==
    <<"C", "o", "n", "t", "e", "x", "t", ":", " ">> \o ctx
    \o <<"\n", "\n", "U", "s", "e", "r", ":", " ">> \o promptText \o <<"\n", "\n">>

\* line 81
RejectionMessage ==
    <<"I", "'", "m", " ", "u", "n", "a", "b", "l", "e", " ", "t", "o", " ",
    "a", "n", "s", "w", "e", "r", " ", "t", "h", "i", "s", ",", " ", "p", "l",
    "e", "a", "s", "e", " ", "t", "r", "y", " ", "a", "g", "a", "i", "n">>

----------------------------------------------------------------------------
(* The session's state outside a chat turn *)

\* app.py line 13: the selectbox's options
ModelOptions ==
    << Str(<<"a", "n", "t", "h", "r", "o", "p", "i", "c", ".", "c", "l", "a",
           "u", "d", "e", "-", "3", "-", "h", "a", "i", "k", "u", "-", "2",
           "0", "2", "4", "0", "3", "0", "7", "-", "v", "1", ":", "0">>),
       Str(<<"a", "n", "t", "h", "r", "o", "p", "i", "c", ".", "c", "l", "a",
           "u", "d", "e", "-", "3", "-", "5", "-", "s", "o", "n", "n", "e",
           "t", "-", "2", "0", "2", "4", "0", "6", "2", "0", "-", "v", "1",
           ":", "0">>) >>

\* nothing computed yet in this run of the script
NoTurn ==
    /\ prompt = <<>>
    /\ gate = None
    /\ retrieval = None
    /\ kb_results = None
    /\ context = <<>>
    /\ response = None
    /\ calls = <<>>

\* a fresh session: lines 13-21
FreshSession ==
    /\ messages = <<>>
    /\ turns = 0
    /\ model_id = ModelOptions[1]
    /\ temperature = 10
    /\ top_p = 1000
    /\ NoTurn

chatVars == <<messages, prompt, model_id, temperature, top_p, gate, retrieval,
              kb_results, context, response, turns>>

----------------------------------------------------------------------------
(* generate_response and valid_prompt as functions of their arguments *)

ModelIds ==
    { ModelOptions[1], ModelOptions[2],
      Str(<<"A", "n", "t", "h", "r", "o", "p", "i", "c", ".", "x">>),
      Str(<<"u", "s", ".", "a", "n", "t", "h", "r", "o", "p", "i", "c", ".", "c", "3">>),
      Str(<<"m", "y", "-", "C", "L", "A", "U", "D", "E", "-", "v", "2">>),
      Str(<<"a", "n", "t", "h", "r", "o", "p", "i", "c">>),
      Str(<<"a", "n", "t", "h", "r", "o", "p", "i", "c", "-", "v", "2">>),
      Str(<<"m", "e", "t", "a", ".", "l", "l", "a", "m", "a", "3">>),
      Str(<<"a", "m", "a", "z", "o", "n", ".", "t", "i", "t", "a", "n">>),
      Str(<<>>), None }

Prompts == { <<"h", "i">>, <<"E", "?">> }

\* invoke_model rejects a modelId that is not a non-empty string
InvokeAccepts(modelId) == IsStr(modelId) /\ Len(modelId.v) > 0

GenerateArgs ==
    { [promptText |-> p, modelId |-> m, temp |-> 0, topP |-> 1000,
       maxTokens |-> DefaultMaxTokens, invoked |-> o] :
        p \in Prompts, m \in ModelIds,
        o \in { Raise("ClientError"),
                Return(Body(TRUE, Dumps(Dict(<< <<"output", Str(<<"o">>)>> >>)))) } }
    \cup
    { [promptText |-> <<"h", "i">>, modelId |-> m, temp |-> 0, topP |-> 1000,
       maxTokens |-> DefaultMaxTokens, invoked |-> o] :
        m \in {ModelOptions[1], Str(<<"m", "e", "t", "a", ".", "l", "l", "a", "m", "a", "3">>)},
        o \in InvokeOutcomes(ResponseDicts \cup NonDictData) }

InitGenerate ==
    /\ FreshSession
    /\ pc = "generate_response"
    /\ arg \in {a \in GenerateArgs : InvokeAccepts(a.modelId) \/ Raised(a.invoked)}
    /\ ret = None

CallGenerate ==
    /\ pc = "generate_response"
    /\ LET r == generate_response(arg.promptText, arg.modelId, arg.temp, arg.topP,
                                  arg.maxTokens, arg.invoked)
       IN  /\ calls' = <<r.sent>>
           /\ ret' = Return(r.out)
    /\ pc' = "returned"
    /\ UNCHANGED <<chatVars, arg>>

SpecGenerate == InitGenerate /\ [][CallGenerate]_vars

ValidPromptArgs ==
    { [promptText |-> p, modelId |-> m, invoked |-> o] :
        p \in Prompts, m \in {ModelOptions[1], Str(<<"m", "e", "t", "a", ".", "l", "l", "a", "m", "a", "3">>)},
        o \in InvokeOutcomes(GateDicts \cup NonDictData
                             \cup { Dict(<< <<"content", c>> >>) : c \in ContentVals }) }

InitValidPrompt ==
    /\ FreshSession
    /\ pc = "valid_prompt"
    /\ arg \in ValidPromptArgs
    /\ ret = None

CallValidPrompt ==
    /\ pc = "valid_prompt"
    /\ LET r == valid_prompt(arg.promptText, arg.modelId, arg.invoked)
       IN  /\ calls' = <<r.sent>>
           /\ ret' = Return(r.out)
    /\ pc' = "returned"
    /\ UNCHANGED <<chatVars, arg>>

SpecValidPrompt == InitValidPrompt /\ [][CallValidPrompt]_vars

----------------------------------------------------------------------------
(* _normalize_retrieval_item as a function of a raw retrieval item *)

Source(s) == Dict(<< <<"source", Str(s)>> >>)

DocumentVals ==
    { EmptyDict,
      Dict(<< <<"text", Str(<<"d">>)>>, <<"id", Str(<<"d", "1">>)>>,
              <<"metadata", Source(<<"d">>)>> >>),
      Dict(<< <<"id", Str(<<"d", "2">>)>> >>),
      Str(<<"x">>),
      List(<<Str(<<"x">>)>>) }
RawContentVals ==
    { EmptyDict,
      Dict(<< <<"text", Str(<<"c">>)>> >>),
      Dict(<< <<"documentText", Str(<<"c", "d">>)>> >>),
      Dict(<< <<"text", Num(5)>> >>),
      List(<<Dict(<< <<"text", Str(<<"c", "1">>)>> >>)>>),
      List(<<Str(<<"c">>)>>),
      Str(<<"s", "c">>) }
RawItems ==
    { Dict(d \o c \o t \o dt \o i \o m \o sc \o sim \o rel) :
        d \in OptField("document", DocumentVals),
        c \in OptField("content", RawContentVals)
              \cup OptField("contents", {Dict(<< <<"text", Str(<<"c", "s">>)>> >>)}),
        t \in OptField("text", {Str(<<"t">>), Str(<<>>), Num(3), List(<<Str(<<"t">>)>>)}),
        dt \in OptField("documentText", {Str(<<"d", "t">>)}),
        i \in OptField("id", {Str(<<"i">>)}),
        m \in OptField("metadata", {Source(<<"m">>), Str(<<"m">>)}),
        sc \in OptField("score", {Num(0), Num(1)}),
        sim \in OptField("similarity", {Num(2)}),
        rel \in OptField("relevanceScore", {Num(3)}) }
    \cup { Str(<<"p", "l", "a", "i", "n">>), Num(4), None, List(<<Str(<<"x">>)>>) }

InitNormalize ==
    /\ FreshSession
    /\ pc = "_normalize_retrieval_item"
    /\ arg \in RawItems
    /\ ret = None

CallNormalize ==
    /\ pc = "_normalize_retrieval_item"
    /\ ret' = _normalize_retrieval_item(arg)
    /\ pc' = "returned"
    /\ UNCHANGED <<chatVars, calls, arg>>

SpecNormalize == InitNormalize /\ [][CallNormalize]_vars

----------------------------------------------------------------------------
(* The context assembly as a function of the retrieval results *)

\* a text of n characters, no two neighbours alike
TextOfLen(n) == [i \in 1..n |-> IF i % 3 = 0 THEN "c" ELSE IF i % 3 = 1 THEN "a" ELSE "b"]

\* the results handed to the assembly: normalized passages of every text
\* length around the cap, and the other shapes the loop probes
ResultShapes ==
    { Passage(None, Str(TextOfLen(n)), EmptyDict, None) :
        n \in {0, 2, PieceCap, PieceCap + OverLen} }
    \cup { Passage(Str(<<"i">>), Num(3), Source(<<"m">>), Num(1)),
           Dict(<< <<"content", List(<<Str(<<"x">>), TextBlock(<<"c", "1">>)>>)>>,
                   <<"chunks", Str(<<"k">>)>> >>),
           Dict(<< <<"preview", Str(TextOfLen(PieceCap + OverLen))>> >>),
           Str(<<"p">>) }

RECURSIVE SeqsUpTo(_, _)
SeqsUpTo(S, n) ==
    IF n = 0 THEN {<<>>}
    ELSE LET shorter == SeqsUpTo(S, n - 1)
         IN  shorter \cup {Append(q, x) : q \in shorter, x \in S}

InitAssemble ==
    /\ FreshSession
    /\ pc = "assemble"
    /\ arg \in SeqsUpTo(ResultShapes, MaxPassages)
    /\ ret = None

CallAssemble ==
    /\ pc = "assemble"
    /\ ret' = Return(Str(Assemble(arg)))
    /\ pc' = "returned"
    /\ UNCHANGED <<chatVars, calls, arg>>

SpecAssemble == InitAssemble /\ [][CallAssemble]_vars

----------------------------------------------------------------------------
(* app.py: the chat session *)

TemperatureOptions == {0, 10}

\* what the model answers the classification call with, in the session
ChatGateOutcomes ==
    { Raise("ClientError"),
      Return(Body(TRUE, <<"<", "h", "t", "m", "l", ">">>)),
      Return(Body(TRUE, Dumps(Dict(<< <<"content", List(<<TextBlock(CategoryText("E"))>>)>> >>)))),
      Return(Body(TRUE, Dumps(Dict(<< <<"content", List(<<TextBlock(<<"1", "2", "3">>)>>)>> >>)))),
      Return(Body(TRUE, Dumps(Dict(<< <<"content", List(<<Dict(<< <<"text", Num(7)>> >>)>>)>> >>)))) }

\* what the model answers the generation call with, in the session
ChatGenerateOutcomes ==
    { Raise("ClientError"),
      Return(Body(TRUE, Dumps(Dict(<< <<"content", List(<<TextBlock(<<"h", "i">>)>>)>> >>)))),
      Return(Body(TRUE, Dumps(Dict(<< <<"content", List(<<Dict(<< <<"text", Num(7)>> >>)>>)>> >>)))),
      Return(Body(FALSE, Dumps(List(<<>>)))) }

RetrievalResult(s) ==
    Dict(<< <<"content", Dict(<< <<"text", Str(s)>> >>)>>, <<"metadata", Source(<<"m">>)>>,
            <<"score", Num(1)>> >>)

\* what the knowledge base answers the retrieval call with, in the session
RetrieveOutcomes ==
    { Raise("ClientError"),
      Return(Dict(<< <<"retrievalResults", List(<<>>)>> >>)),
      Return(Dict(<< <<"retrievalResults",
                       List(<<RetrievalResult(<<"c">>), RetrievalResult(<<>>)>>)>> >>)),
      Return(Dict(<< <<"retrievalResults", List(<<Dict(<< <<"document", Str(<<"x">>)>> >>)>>)>> >>)),
      Return(Dict(<< <<"results", Dict(<< <<"hits", Num(1)>> >>)>> >>)) }

----------------------------------------------------------------------------
(* bedrock_utils.query_knowledge_base as a function of the retrieve response *)

\* values a response holds under retrievalResults
Batches ==
    { List(<<>>),
      List(<<RetrievalResult(<<"c">>)>>),
      List(<<RetrievalResult(<<"c">>), Str(<<"p">>)>>),
      List(<<Dict(<< <<"document", Str(<<"x">>)>> >>)>>),
      Dict(<< <<"items", List(<<RetrievalResult(<<"n">>)>>)>> >>),
      Dict(<< <<"hits", List(<<RetrievalResult(<<"h">>)>>)>>,
              <<"items", List(<<RetrievalResult(<<"n">>)>>)>> >>),
      Dict(<< <<"results", List(<<>>)>> >>),
      Dict(<< <<"hits", Num(1)>> >>),
      Dict(<< <<"results", Dict(<< <<"hits", List(<<RetrievalResult(<<"d">>)>>)>> >>)>> >>),
      Dict(<< <<"retrievalResults", List(<<RetrievalResult(<<"q">>)>>)>> >>),
      Dict(<< <<"text", Str(<<"t">>)>> >>),
      EmptyDict,
      Str(<<"a", "b">>),
      Num(5),
      Num(0),
      None }

\* responses of bedrock_kb.retrieve: each probed key absent or present
RetrieveResponses ==
    { Dict(a \o b \o c \o d) :
        a \in OptField("retrievalResults", Batches),
        b \in OptField("results", {List(<<RetrievalResult(<<"r">>)>>),
                                   Dict(<< <<"hits", Num(1)>> >>), EmptyDict}),
        c \in OptField("items", {List(<<>>), List(<<Str(<<"i">>)>>)}),
        d \in OptField("hits", {List(<<RetrievalResult(<<"h">>)>>), Num(2)}) }

QueryKBArgs ==
    { [query |-> <<"h", "i">>, top_k |-> TopK, retrieved |-> o] :
        o \in { Raise("ClientError"), Raise("ResourceNotFoundException") }
               \cup { Return(r) : r \in RetrieveResponses } }

InitQueryKB ==
    /\ FreshSession
    /\ pc = "query_knowledge_base"
    /\ arg \in QueryKBArgs
    /\ ret = None

CallQueryKB ==
    /\ pc = "query_knowledge_base"
    /\ LET r == query_knowledge_base(arg.query, arg.top_k, arg.retrieved)
       IN  /\ calls' = <<r.sent>>
           /\ ret' = Return(r.out)
    /\ pc' = "returned"
    /\ UNCHANGED <<chatVars, arg>>

SpecQueryKB == InitQueryKB /\ [][CallQueryKB]_vars

----------------------------------------------------------------------------
(* The chat turn, continued *)

UserMessage(s) == [role |-> "user", content |-> Str(s)]
AssistantMessage(x) == [role |-> "assistant", content |-> x]

Init ==
    /\ FreshSession
    /\ pc = "idle"
    /\ arg = None
    /\ ret = None

\* lines 13-17 and 29-32: the sidebar as it stands and a chat input start a run
Submit ==
    /\ pc = "idle"
    /\ turns < MaxTurns
    /\ \E p \in Prompts, m \in 1..Len(ModelOptions), t \in TemperatureOptions :
          /\ prompt' = p
          /\ model_id' = ModelOptions[m]
          /\ temperature' = t
          /\ messages' = Append(messages, UserMessage(p))
    /\ pc' = "gate"
    /\ UNCHANGED <<top_p, gate, retrieval, kb_results, context, response, calls, turns,
                   arg, ret>>

\* lines 34 and 80-81: `if valid_prompt(prompt, model_id):` and its else branch
Gate ==
    /\ pc = "gate"
    /\ \E o \in ChatGateOutcomes :
          LET r == valid_prompt(prompt, model_id, o)
          IN  /\ calls' = Append(calls, r.sent)
              /\ gate' = r.out
              /\ IF Truthy(r.out)
                 THEN pc' = "retrieve" /\ response' = response
                 ELSE pc' = "render" /\ response' = Str(RejectionMessage)
    /\ UNCHANGED <<messages, prompt, model_id, temperature, top_p, retrieval, kb_results,
                   context, turns, arg, ret>>

\* lines 36-75: query the knowledge base and assemble the context
Retrieve ==
    /\ pc = "retrieve"
    /\ \E o \in RetrieveOutcomes :
          LET r == query_knowledge_base(prompt, TopK, o)
          IN  /\ calls' = Append(calls, r.sent)
              /\ retrieval' = o
              /\ kb_results' = r.out
              /\ context' = Assemble(Or(r.out, List(<<>>)).v)
    /\ pc' = "generate"
    /\ UNCHANGED <<messages, prompt, model_id, temperature, top_p, gate, response,
                   turns, arg, ret>>

\* Generate, except that a failed generation call is made a second time
Generate_RetryOnFailure ==
    /\ pc = "generate"
    /\ \E o \in ChatGenerateOutcomes :
          LET r == generate_response(FullPrompt(context, prompt), model_id, temperature,
                                     top_p, DefaultMaxTokens, o)
          IN  /\ calls' = IF IsNone(r.out) THEN Append(Append(calls, r.sent), r.sent)
                          ELSE Append(calls, r.sent)
              /\ response' = r.out
    /\ pc' = "render"
    /\ UNCHANGED <<messages, prompt, model_id, temperature, top_p, gate, retrieval,
                   kb_results, context, turns, arg, ret>>

\* lines 77-79
Generate ==
    /\ pc = "generate"
    /\ \E o \in ChatGenerateOutcomes :
          LET r == generate_response(FullPrompt(context, prompt), model_id, temperature,
                                     top_p, DefaultMaxTokens, o)
          IN  /\ calls' = Append(calls, r.sent)
              /\ response' = r.out
    /\ pc' = "render"
    /\ UNCHANGED <<messages, prompt, model_id, temperature, top_p, gate, retrieval,
                   kb_results, context, turns, arg, ret>>

\* Render, except that an answer of None is shown but not kept in the history
Render_SkipNone ==
    /\ pc = "render"
    /\ messages' = IF IsNone(response) THEN messages
                   ELSE Append(messages, AssistantMessage(response))
    /\ turns' = turns + 1
    /\ prompt' = <<>>
    /\ gate' = None
    /\ retrieval' = None
    /\ kb_results' = None
    /\ context' = <<>>
    /\ response' = None
    /\ calls' = <<>>
    /\ pc' = "idle"
    /\ UNCHANGED <<model_id, temperature, top_p, arg, ret>>

\* lines 83-86: show the answer and append it; the run ends and only
\* st.session_state and the sidebar outlive it
Render ==
    /\ pc = "render"
    /\ messages' = Append(messages, AssistantMessage(response))
    /\ turns' = turns + 1
    /\ prompt' = <<>>
    /\ gate' = None
    /\ retrieval' = None
    /\ kb_results' = None
    /\ context' = <<>>
    /\ response' = None
    /\ calls' = <<>>
    /\ pc' = "idle"
    /\ UNCHANGED <<model_id, temperature, top_p, arg, ret>>

Next == Submit \/ Gate \/ Retrieve \/ Generate \/ Render

Spec == Init /\ [][Next]_vars

----------------------------------------------------------------------------
(* Claims *)

\* the prompt text a payload carries, whichever its shape
PromptOf(payload) ==
    IF Has(payload, "input") THEN Item(payload, "input").v
    ELSE Item(Item(Item(payload, "messages").v[1], "content").v[1], "text").v

\* the turn in progress has been classified with category none
GateSaidNone == IsDict(gate) /\ IsNone(Item(gate, "category"))

\* C1: in a chat turn whose classification result has category none, the
\* answer is exactly the rejection message and no call but the gate's own
\* classification call is made: the turn goes straight to rendering.
C1_NoneCategoryRejects ==
    GateSaidNone =>
        /\ pc = "render"
        /\ response = Str(RejectionMessage)
        /\ Len(calls) = 1
        /\ calls[1].api = "invoke_model"

\* the adapter's raw output that valid_prompt classified
AdapterOutput ==
    generate_response(GatePrompt(arg.promptText), arg.modelId, 0, 1000, GateMaxTokens,
                      arg.invoked).out

HasLetter(s) ==
    \E i \in 1..Len(s) : IsIn(<<"A", "B", "C", "D", "E", "a", "b", "c", "d", "e">>, s[i])

\* C2: valid_prompt returns category X for the adapter output "Category X",
\* X in A..E, and category none for an output holding none of the letters
\* A-E in either case.
C2_CategoryLetter ==
    (pc = "returned" /\ IsStr(AdapterOutput)) =>
        /\ \A i \in 1..Len(Categories) :
              AdapterOutput.v = CategoryText(Categories[i])
                  => Item(ret.val, "category") = Str(<<Categories[i]>>)
        /\ ~HasLetter(AdapterOutput.v) => IsNone(Item(ret.val, "category"))

\* C3: the assembled context is never longer than 15,000 characters plus the
\* truncation marker, whatever the results are.
C3_ContextBounded ==
    pc = "returned" => Len(ret.val.v) <= 15000 + Len(TruncationMarker)

\* a batch long enough to be cut, and cut to the bound exactly
C3_Witness ==
    /\ pc = "returned"
    /\ Len(arg) = MaxPassages
    /\ Len(ret.val.v) = 15000 + Len(TruncationMarker)

\* what a resolved display text contributes under the per-piece cap
C4_Contribution(t) ==
    IF Len(t) > 5000 THEN SubSeq(t, 1, 5000) \o TruncationMarker ELSE t

C4_Joined == Join([i \in 1..Len(arg) |-> C4_Contribution(DisplayText(arg[i]))], <<"\n">>)

\* C4: a result whose resolved display text is longer than 5,000 characters
\* contributes its first 5,000 characters followed by the truncation marker,
\* a shorter one contributes unchanged; the context of a single result is its
\* contribution, and of several (within the overall cap) their newline-join.
C4_PieceCapped ==
    pc = "returned" =>
        /\ Len(arg) = 1 => ret.val.v = C4_Contribution(DisplayText(arg[1]))
        /\ Len(C4_Joined) <= 15000 => ret.val.v = C4_Joined

\* a single result of more than 5,000 characters, cut and marked
C4_Witness ==
    /\ pc = "returned"
    /\ Len(arg) = 1
    /\ Len(DisplayText(arg[1])) > 5000
    /\ ret.val.v = SubSeq(DisplayText(arg[1]), 1, 5000) \o TruncationMarker

C5_ClaudeShape(payload, promptText) ==
    /\ [i \in 1..Len(payload.v) |-> payload.v[i][1]]
         = <<"anthropic_version", "messages", "max_tokens", "temperature", "top_p">>
    /\ Len(Item(payload, "messages").v) = 1
    /\ Item(Item(payload, "messages").v[1], "role") = Str(<<"u", "s", "e", "r">>)
    /\ Item(Item(payload, "messages").v[1], "content") = List(<<TextBlock(promptText)>>)

C5_GenericShape(payload, promptText) ==
    /\ [i \in 1..Len(payload.v) |-> payload.v[i][1]]
         = <<"input", "max_tokens", "temperature", "top_p">>
    /\ Item(payload, "input") = Str(promptText)

C5_Marked(modelId, markers) ==
    /\ IsStr(modelId)
    /\ \E m \in markers : Contains(Lower(modelId.v), m)

\* C5 as stated: the Claude-family payload exactly when modelId contains
\* "anthropic" or "claude" in any case, the generic payload otherwise.
C5_MarkerAnthropic ==
    pc = "returned" =>
        IF C5_Marked(arg.modelId, {<<"a", "n", "t", "h", "r", "o", "p", "i", "c">>, <<"c", "l", "a", "u", "d", "e">>})
        THEN C5_ClaudeShape(calls[1].payload, arg.promptText)
        ELSE C5_GenericShape(calls[1].payload, arg.promptText)

\* C5 amended: the Claude-family payload exactly when modelId contains
\* "anthropic." (with its dot) or "claude" in any case, the generic payload
\* otherwise; no payload has both shapes.
C5_MarkerAnthropicDot ==
    pc = "returned" =>
        /\ IF C5_Marked(arg.modelId, {<<"a", "n", "t", "h", "r", "o", "p", "i", "c", ".">>, <<"c", "l", "a", "u", "d", "e">>})
           THEN C5_ClaudeShape(calls[1].payload, arg.promptText)
           ELSE C5_GenericShape(calls[1].payload, arg.promptText)
        /\ ~(Has(calls[1].payload, "messages") /\ Has(calls[1].payload, "input"))

\* an upper-case marker selects the Claude-family payload
C5_Witness ==
    /\ pc = "returned"
    /\ arg.modelId = Str(<<"m", "y", "-", "C", "L", "A", "U", "D", "E", "-", "v", "2">>)
    /\ Has(calls[1].payload, "messages")

\* no text at a location: the field is absent, None or ''
C6_Missing(x) == IsNone(x) \/ x = EmptyStr

\* no text under a content / contents value, of whatever type
C6_NoTextIn(c) ==
    /\ IsDict(c) => C6_Missing(Get(c, "text")) /\ C6_Missing(Get(c, "documentText"))
    /\ (IsList(c) /\ Len(c.v) > 0 /\ IsDict(c.v[1]))
          => C6_Missing(Get(c.v[1], "text")) /\ C6_Missing(Get(c.v[1], "documentText"))

\* a raw record with no text in any known location
C6_NoUsableText(item) ==
    /\ IsDict(item)
    /\ C6_NoTextIn(Get(item, "content"))
    /\ C6_NoTextIn(Get(item, "contents"))
    /\ C6_Missing(Get(item, "text"))
    /\ C6_Missing(Get(item, "documentText"))
    /\ IsDict(Get(item, "document")) => C6_Missing(Get(Get(item, "document"), "text"))

\* C6: for a raw item with no usable text in any known location, whatever
\* the types of its document, content and metadata fields,
\* _normalize_retrieval_item returns a Passage whose text is the empty
\* string, and does not raise.
C6_NoTextGivesEmpty ==
    (pc = "returned" /\ C6_NoUsableText(arg)) =>
        /\ Returned(ret)
        /\ Item(ret.val, "text") = EmptyStr

\* C7: every Passage _normalize_retrieval_item produces has a string as
\* its text, whatever the raw item holds.
C7_TextIsString ==
    (pc = "returned" /\ Returned(ret)) => IsStr(Item(ret.val, "text"))

\* the final prompt of a turn with an empty context
C8_EmptyContextPrompt ==
    <<"C", "o", "n", "t", "e", "x", "t", ":", " ">>
    \o <<"\n", "\n", "U", "s", "e", "r", ":", " ">> \o prompt \o <<"\n", "\n">>

\* C8: in a turn that passes the gate and retrieves the empty sequence, the
\* context is the empty string, and by the time the answer is rendered the
\* generation call has been made exactly once, after the gate's call and the
\* retrieval, with the prompt "Context: " + "" + "\n\nUser: " + prompt + "\n\n".
C8_EmptyRetrievalStillGenerates ==
    (pc \in {"generate", "render"} /\ kb_results = List(<<>>)) =>
        /\ context = <<>>
        /\ pc = "render" =>
              /\ Len(calls) = 3
              /\ calls[2].api = "retrieve"
              /\ calls[3].api = "invoke_model"
              /\ PromptOf(calls[3].payload) = C8_EmptyContextPrompt
              /\ PromptOf(calls[1].payload) # C8_EmptyContextPrompt

\* an empty retrieval, and the generation call made
C8_Witness ==
    /\ pc = "render"
    /\ kb_results = List(<<>>)
    /\ Len(calls) = 3
    /\ PromptOf(calls[3].payload) = C8_EmptyContextPrompt

\* the parsed response of the call under way
C9_Data == Loads(arg.invoked.val.bytes).val

C9_StrField(d, k) == Has(d, k) /\ IsStr(Item(d, k))

\* (a): content is a non-empty sequence whose first element is a record with text
C9_A(d) ==
    /\ IsDict(d) /\ Has(d, "content") /\ IsList(Item(d, "content"))
    /\ Len(Item(d, "content").v) > 0
    /\ IsDict(Item(d, "content").v[1]) /\ Has(Item(d, "content").v[1], "text")

\* (b): one of output, generatedText, text, result is a string field
C9_B(d) ==
    /\ IsDict(d)
    /\ \E k \in {"output", "generatedText", "text", "result"} : C9_StrField(d, k)

\* (c): results[0] is a record with a string output, text or generatedText
C9_C(d) ==
    /\ IsDict(d) /\ Has(d, "results") /\ IsList(Item(d, "results"))
    /\ Len(Item(d, "results").v) > 0
    /\ IsDict(Item(d, "results").v[1])
    /\ \E k \in {"output", "text", "generatedText"} : C9_StrField(Item(d, "results").v[1], k)

\* the value under the first key of `keys` that is a string field of d
C9_First(d, keys) ==
    IF C9_StrField(d, keys[1]) THEN Item(d, keys[1])
    ELSE IF C9_StrField(d, keys[2]) THEN Item(d, keys[2])
    ELSE IF C9_StrField(d, keys[3]) THEN Item(d, keys[3])
    ELSE Item(d, keys[4])

\* C9: generate_response extracts the answer by ordered first match: (a)
\* content[0].text, else (b) the first string field of output,
\* generatedText, text, result, else (c) the first string of output, text,
\* generatedText in results[0], else the parsed response serialized; and the
\* response {"output": s} yields exactly s.
C9_OrderedFirstMatch ==
    (pc = "returned" /\ Returned(arg.invoked) /\ Returned(Loads(arg.invoked.val.bytes))) =>
        /\ ret.val =
             (IF C9_A(C9_Data) THEN Item(Item(C9_Data, "content").v[1], "text")
              ELSE IF C9_B(C9_Data)
              THEN C9_First(C9_Data, <<"output", "generatedText", "text", "result">>)
              ELSE IF C9_C(C9_Data)
              THEN C9_First(Item(C9_Data, "results").v[1],
                            <<"output", "text", "generatedText", "generatedText">>)
              ELSE Str(Dumps(C9_Data)))
        /\ \A s \in {o.v : o \in {x \in OutputVals : IsStr(x)}} :
              C9_Data = Dict(<< <<"output", Str(s)>> >>) => ret.val = Str(s)

\* the response {"output": s}, for an s that JSON escapes, gives back s
C9_Witness ==
    /\ pc = "returned"
    /\ Returned(arg.invoked)
    /\ arg.invoked.val.bytes = Dumps(Dict(<< <<"output", Str(<<"\"", "\n", "\\">>)>> >>))
    /\ ret.val = Str(<<"\"", "\n", "\\">>)

\* C10: every assistant message in the conversation history has string
\* content, however its turn ended.
C10_AssistantContentIsString ==
    \A i \in 1..Len(messages) :
        messages[i].role = "assistant" => IsStr(messages[i].content)

\* the call of a turn that goes to the model: the model id and the prompt sent
C11_IsInvoke(c, promptText) ==
    /\ c.api = "invoke_model"
    /\ c.modelId = model_id
    /\ PromptOf(c.payload) = promptText

\* the calls made so far in the turn, by the place the turn has reached
C11_Chain ==
    /\ pc \in {"idle", "gate"} => calls = <<>>
    /\ pc = "retrieve" => Len(calls) = 1
    /\ pc = "generate" => Len(calls) = 2
    /\ pc = "render" => Len(calls) \in {1, 3}
    /\ Len(calls) >= 1 => C11_IsInvoke(calls[1], GatePrompt(prompt)) /\ ~IsNone(gate)
    /\ Len(calls) >= 2 =>
          /\ calls[2] = RetrieveCall(prompt, TopK)
          /\ Truthy(gate)
          /\ retrieval # None /\ kb_results # None
    /\ Len(calls) >= 3 => C11_IsInvoke(calls[3], FullPrompt(context, prompt))
    /\ calls # <<>> =>
          /\ Len(messages) = 2 * turns + 1
          /\ messages[Len(messages)] = UserMessage(prompt)
          /\ \A k \in 1..turns : messages[2 * k].role = "assistant"

\* one step of the program makes at most one call, after the calls already
\* made, and the calls of a turn are forgotten only as its assistant message
\* is appended
C11_OneCallPerStep ==
    \/ calls' = calls
    \/ /\ Len(calls') = Len(calls) + 1
       /\ SubSeq(calls', 1, Len(calls)) = calls
    \/ /\ calls' = <<>>
       /\ Len(messages') = Len(messages) + 1
       /\ messages'[Len(messages')].role = "assistant"

\* C11: a user message triggers one chain of calls: the gate's classification
\* call, then, if the gate permits, one retrieval call, then one generation
\* call, each made after the one before has returned; no call is made twice
\* in a turn, whatever fails, and no call of a turn is made before the
\* assistant message of the turn before has been appended.
C11_OneSequentialChain == [](C11_Chain) /\ [][C11_OneCallPerStep]_vars

\* a turn whose retrieval and generation both failed, with its three calls
C11_Witness ==
    /\ pc = "render"
    /\ turns = 1
    /\ Raised(retrieval)
    /\ IsNone(response)
    /\ Len(calls) = 3

\* the retrieval of the turn failed: bedrock_kb.retrieve raised, or something
\* raised while its response was probed and its items normalized
C12_RetrievalFailed ==
    /\ retrieval # None
    /\ \/ Raised(retrieval)
       \/ ~IsDict(retrieval.val)
       \/ Raised(NormalizeAll(NestedResults(TopLevelResults(retrieval.val))))

\* C12: whenever the retrieval fails (the retrieve call raises, or anything
\* raises while retrieving or normalizing), query_knowledge_base returns the
\* empty sequence, and the chat turn goes on to the generation call with an
\* empty context.
C12_FailedRetrievalIsEmpty ==
    C12_RetrievalFailed =>
        /\ pc \in {"generate", "render"}
        /\ kb_results = List(<<>>)
        /\ context = <<>>
        /\ pc = "render" =>
              /\ Len(calls) = 3
              /\ calls[3].api = "invoke_model"
              /\ PromptOf(calls[3].payload) = FullPrompt(<<>>, prompt)

\* a turn whose retrieve call returned, whose normalization raised, and whose
\* generation call was made all the same
C12_Witness ==
    /\ pc = "render"
    /\ C12_RetrievalFailed
    /\ ~Raised(retrieval)
    /\ Len(calls) = 3
    /\ calls[3].api = "invoke_model"

\* C13: whatever the modelId, the prompt, the inference failure or the
\* response body, generate_response does not raise, and what it returns is
\* a text string or None, never a number, a list or a record.
C13_StringOrNone ==
    pc = "returned" =>
        /\ Returned(ret)
        /\ IsStr(ret.val) \/ IsNone(ret.val)

C14_Keys == <<"retrievalResults", "results", "items", "hits">>

\* the value under the first of the keys that d has, None when it has none
C14_FirstPresent(d) ==
    IF \E i \in 1..Len(C14_Keys) : Has(d, C14_Keys[i])
    THEN Item(d, C14_Keys[CHOOSE i \in 1..Len(C14_Keys) :
                            /\ Has(d, C14_Keys[i])
                            /\ \A j \in 1..(i - 1) : ~Has(d, C14_Keys[j])])
    ELSE None

\* d holds a sequence under one of the probed keys
C14_HoldsSequence(d) ==
    \E i \in 1..Len(C14_Keys) : Has(d, C14_Keys[i]) /\ IsList(Item(d, C14_Keys[i]))

\* C14: when the batch of a retrieve response, the value under the first
\* present of retrievalResults, results, items, hits, is a record that holds
\* no sequence under the probed keys, query_knowledge_base returns the empty
\* sequence: no passage is made out of the record's keys.
C14_RecordWithoutSequenceIsEmpty ==
    (pc = "returned" /\ Returned(arg.retrieved)) =>
        LET batch == C14_FirstPresent(arg.retrieved.val)
        IN  (IsDict(batch) /\ Truthy(batch) /\ ~C14_HoldsSequence(batch))
                => ret.val = List(<<>>)

C15_Keys == <<"score", "similarity", "relevanceScore">>

\* the value of the first of score, similarity, relevanceScore that the item
\* has, None when it has none of them
C15_FirstPresent(item) ==
    IF \E i \in 1..Len(C15_Keys) : Has(item, C15_Keys[i])
    THEN Item(item, C15_Keys[CHOOSE i \in 1..Len(C15_Keys) :
                               /\ Has(item, C15_Keys[i])
                               /\ \A j \in 1..(i - 1) : ~Has(item, C15_Keys[j])])
    ELSE None

\* C15: the score of the passage made from a raw retrieval record is the
\* value of the first field present among score, similarity, relevanceScore,
\* and None only when none is present: a score field of 0 gives score 0.
C15_ScoreFirstPresent ==
    (pc = "returned" /\ IsDict(arg) /\ Returned(ret)) =>
        Item(ret.val, "score") = C15_FirstPresent(arg)

\* a normalized passage: id, text, metadata, score, with a string text
C16_IsPassage(r) ==
    /\ IsDict(r)
    /\ [i \in 1..Len(r.v) |-> r.v[i][1]] = <<"id", "text", "metadata", "score">>
    /\ IsStr(Item(r, "text"))

\* the newline-join, in retrieval order, of the non-empty passage texts, each
\* capped
C16_Joined ==
    LET texts == [i \in 1..Len(arg) |-> Item(arg[i], "text").v]
        kept == SelectSeq(texts, LAMBDA t : t # <<>>)
    IN  Join([i \in 1..Len(kept) |-> C4_Contribution(kept[i])], <<"\n">>)

\* C16: the context assembled from normalized passages is, before the overall
\* cap, the newline-join in retrieval order of the non-empty passage texts,
\* each capped; a passage whose text is the empty string contributes nothing,
\* and a batch of empty-text passages gives the empty context.
C16_NonEmptyTextsJoined ==
    (/\ pc = "returned"
     /\ \A i \in 1..Len(arg) : C16_IsPassage(arg[i])
     /\ Len(C16_Joined) <= 15000)
        => ret.val.v = C16_Joined

\* what the text of the error raised on a non-string adapter value says
C17_ErrorText ==
    <<"h", "a", "s", " ", "n", "o", " ", "a", "t", "t", "r", "i", "b", "u", "t", "e">>

\* C17: valid_prompt does not raise; its result has a category that is None
\* or one of A..E and a raw that is a string; the category is None when the
\* adapter call returned None, and when classifying failed because the
\* adapter returned a non-string value the result is category None with the
\* error text as raw.
C17_NeverRaises ==
    pc = "returned" =>
        /\ Returned(ret)
        /\ IsDict(ret.val)
        /\ [i \in 1..Len(ret.val.v) |-> ret.val.v[i][1]] = <<"category", "raw">>
        /\ \/ IsNone(Item(ret.val, "category"))
           \/ \E i \in 1..Len(Categories) : Item(ret.val, "category") = Str(<<Categories[i]>>)
        /\ IsStr(Item(ret.val, "raw"))
        /\ IsNone(AdapterOutput) =>
              IsNone(Item(ret.val, "category")) /\ Item(ret.val, "raw") = EmptyStr
        /\ (~IsStr(AdapterOutput) /\ Truthy(AdapterOutput)) =>
              /\ IsNone(Item(ret.val, "category"))
              /\ Contains(Item(ret.val, "raw").v, C17_ErrorText)

\* the adapter returned a number, and the result carries the error text
C17_Witness ==
    /\ pc = "returned"
    /\ AdapterOutput = Num(7)
    /\ IsNone(Item(ret.val, "category"))
    /\ IsStr(Item(ret.val, "raw"))
    /\ Contains(Item(ret.val, "raw").v, C17_ErrorText)

\* the history of `turns` completed turns, and of the turn in progress: user
\* and assistant messages in turn, the last one the prompt being answered
C18_Alternating ==
    /\ Len(messages) = 2 * turns + (IF pc = "idle" THEN 0 ELSE 1)
    /\ \A i \in 1..Len(messages) :
          messages[i].role = (IF i % 2 = 1 THEN "user" ELSE "assistant")
    /\ pc # "idle" => messages[Len(messages)] = UserMessage(prompt)

\* a step leaves the history alone, or appends the user message holding the
\* prompt just entered, or appends the assistant message that completes the
\* turn
C18_AppendOnly ==
    \/ messages' = messages
    \/ /\ pc = "idle"
       /\ messages' = Append(messages, UserMessage(prompt'))
       /\ turns' = turns
    \/ /\ pc = "render"
       /\ Len(messages') = Len(messages) + 1
       /\ SubSeq(messages', 1, Len(messages)) = messages
       /\ messages'[Len(messages')].role = "assistant"
       /\ turns' = turns + 1

\* C18: the conversation history is append-only over any number of turns: no
\* entry is changed or removed, each completed turn appends one user message
\* holding the raw prompt and then one assistant message, so the roles
\* alternate from user on and the history of n completed turns has 2n
\* entries, whether the turn was answered, rejected or failed to generate.
C18_HistoryAppendOnly == [](C18_Alternating) /\ [][C18_AppendOnly]_vars

\* two completed turns, one of them with a failed generation call
C18_Witness ==
    /\ pc = "idle"
    /\ turns = 2
    /\ Len(messages) = 4
    /\ \E i \in {2, 4} : IsNone(messages[i].content)
    /\ \E i \in {2, 4} : IsStr(messages[i].content)

====
